---- MODULE Spec2Model ----
(***************************************************************************)
(* A model of the two algorithmic cores of the repository:                 *)
(*   - MGDASolver (src/utils/min_norm_solvers.py): the min-norm solver on  *)
(*     the simplex and its caller get_scales;                              *)
(*   - FedAvgCKA (src/defences/cka.py): CKA similarity, quantile filter    *)
(*     and parameter-wise mean of the surviving client updates.            *)
(*                                                                         *)
(* Numbers.  The code computes in floating point.  The model computes in   *)
(* exact rational arithmetic: a number is a pair <<n, d>> with d > 0 and   *)
(* gcd(n, d) = 1.  Two further values exist:                               *)
(*   NaN    the IEEE not-a-number (every comparison with it is false,      *)
(*          every operation on it gives NaN);                              *)
(*   Unrep  a rational whose numerator or denominator exceeds              *)
(*          MaxMagnitude: the model cannot represent it, and a call that   *)
(*          meets one stops in the state pc = "unrep" (the horizon of the  *)
(*          model, not a state of the program).                            *)
(* Python indexes from 0, the model from 1.                                *)
(*                                                                         *)
(* Style.  A value that is used more than once is passed on as the         *)
(* parameter of a helper operator (F(x) == FWith(x, G(x))) instead of      *)
(* being named in a LET: TLC's coverage statistics expand a LET name at    *)
(* each of its uses.                                                       *)
(***************************************************************************)
EXTENDS Integers, Sequences, FiniteSets, TLC

\* ------------------------------------------------------------ bounds
\* Largest numerator or denominator the model represents.
MaxMagnitude == 1000000000
\* Largest number of task gradients in one solver call.
MaxTasks == 3
\* Largest number of loop passes the model follows in one solver call.
MaxPasses == 4

\* ------------------------------------------------------------ numbers
Abs(x) == IF x < 0 THEN -x ELSE x

RECURSIVE GCD(_, _)
GCD(a, b) == IF b = 0 THEN a ELSE GCD(b, a % b)

NaN == <<0, 0>>
Unrep == <<1, 0>>
IsNum(r) == r[2] > 0
\* The result of an operation one of whose operands is no number.
NoNum(a, b) == IF a = Unrep \/ b = Unrep THEN Unrep ELSE NaN

Fits(a) == Abs(a) <= MaxMagnitude
MulFits(a, b) == a = 0 \/ b = 0 \/ Abs(a) <= MaxMagnitude \div Abs(b)

Num(k) == <<k, 1>>
Zero == <<0, 1>>
One == <<1, 1>>
\* n / d in lowest terms, for integers n and d > 0 within MaxMagnitude.
Reduce(n, d, g) == <<n \div g, d \div g>>
Frac(n, d) == Reduce(n, d, GCD(Abs(n), d))

RNeg(a) == IF IsNum(a) THEN <<-a[1], a[2]>> ELSE a

FitOrUnrep(r) == IF Fits(r[1]) THEN r ELSE Unrep
\* a + b over the common denominator a[2] * fa = b[2] * fb.
RAddOver(a, b, fa, fb) ==
    IF MulFits(a[2], fa) /\ MulFits(a[1], fa) /\ MulFits(b[1], fb)
    THEN FitOrUnrep(Frac(a[1] * fa + b[1] * fb, a[2] * fa))
    ELSE Unrep
RAddBy(a, b, g) == RAddOver(a, b, b[2] \div g, a[2] \div g)
RAdd(a, b) ==
    IF IsNum(a) /\ IsNum(b) THEN RAddBy(a, b, GCD(a[2], b[2])) ELSE NoNum(a, b)

RSub(a, b) == RAdd(a, RNeg(b))

RMulParts(n1, n2, d1, d2) ==
    IF MulFits(n1, n2) /\ MulFits(d1, d2) THEN <<n1 * n2, d1 * d2>> ELSE Unrep
RMulBy(a, b, g1, g2) == RMulParts(a[1] \div g1, b[1] \div g2, a[2] \div g2, b[2] \div g1)
RMul(a, b) ==
    IF IsNum(a) /\ IsNum(b)
    THEN RMulBy(a, b, GCD(Abs(a[1]), b[2]), GCD(Abs(b[1]), a[2]))
    ELSE NoNum(a, b)

\* 1 / b for a number b # 0.
Recip(b) == IF b[1] > 0 THEN <<b[2], b[1]>> ELSE <<-b[2], -b[1]>>
\* a / b; a division by zero gives NaN (numpy: nan or inf, with a warning).
RDiv(a, b) ==
    IF ~(IsNum(a) /\ IsNum(b)) THEN NoNum(a, b)
    ELSE IF b[1] = 0 THEN NaN
    ELSE RMul(a, Recip(b))

\* a/b < c/d for integers a, c and b, d > 0, without multiplying: compare the
\* integer parts, then the fractional parts through their reciprocals.
RECURSIVE LessQ(_, _, _, _)
LessQ(a, b, c, d) ==
    IF a \div b # c \div d THEN a \div b < c \div d
    ELSE IF c % d = 0 THEN FALSE
    ELSE IF a % b = 0 THEN TRUE
    ELSE LessQ(d, c % d, b, a % b)

\* Comparisons: false when an operand is no number, as for an IEEE NaN.
RLt(a, b) == IsNum(a) /\ IsNum(b) /\ LessQ(a[1], a[2], b[1], b[2])
RGt(a, b) == RLt(b, a)
RGe(a, b) == IsNum(a) /\ IsNum(b) /\ ~LessQ(a[1], a[2], b[1], b[2])
RLe(a, b) == RGe(b, a)

RAbs(a) == IF IsNum(a) /\ a[1] < 0 THEN RNeg(a) ELSE a
RMin(a, b) == IF RLt(b, a) THEN b ELSE a
RMax(a, b) == IF ~(IsNum(a) /\ IsNum(b)) THEN NoNum(a, b) ELSE IF RLt(a, b) THEN b ELSE a

\* Vectors of numbers are sequences.
\* The sequence s itself, as an enumerated tuple: TLC otherwise re-evaluates the
\* elements of [i \in 1..n |-> e] at each application.
Eager(s) == s \o <<>>
ToNums(v) == [k \in DOMAIN v |-> Num(v[k])]
RECURSIVE RSum(_)
RSum(v) == IF v = <<>> THEN Zero ELSE RAdd(Head(v), RSum(Tail(v)))
AnyUnrep(v) == \E i \in DOMAIN v : v[i] = Unrep
UnrepVec(n) == [i \in 1..n |-> Unrep]
\* The least number of a non-empty set of numbers (np.min).
MinOf(S) == CHOOSE x \in S : \A y \in S : RLe(x, y)

\* np.flip(np.sort(y)): y in descending order, by insertion.
RECURSIVE InsertDesc(_, _)
InsertDesc(x, s) ==
    IF s = <<>> THEN <<x>>
    ELSE IF RGe(x, Head(s)) THEN <<x>> \o s
    ELSE <<Head(s)>> \o InsertDesc(x, Tail(s))
RECURSIVE SortDesc(_)
SortDesc(y) == IF y = <<>> THEN <<>> ELSE InsertDesc(Head(y), SortDesc(Tail(y)))

\* ------------------------------------------------------------ MGDASolver
MAX_ITER == 250
STOP_CRIT == <<1, 100000>>
\* The literals of the solver: 0.999, 0.001, 1e8 and 1e-7.
Gamma999 == <<999, 1000>>
Gamma001 == <<1, 1000>>
DMin0 == <<100000000, 1>>
TEps == <<1, 10000000>>

\* A task gradient is a list of tensors; the model gives every tensor one
\* element, so vecs[i][k] is a number and torch.dot a product.
RECURSIVE DotFrom(_, _, _, _)
DotFrom(a, b, k, len) ==
    IF k > len THEN Zero
    ELSE RAdd(RMul(a[k], b[k]), DotFrom(a, b, k + 1, len))

\* Faulty variant of line 33: v2v2 is not subtracted from v1v2.
From2CostPlain(gamma, v1v2, v2v2) == <<gamma, RAdd(v2v2, RMul(gamma, v1v2))>>
\* The third case of _min_norm_element_from2, lines 32-34.
From2Cost(gamma, v1v2, v2v2) == <<gamma, RAdd(v2v2, RMul(gamma, RSub(v1v2, v2v2)))>>
\* The denominator of line 32.
From2Den(v1v1, v1v2, v2v2) == RSub(RAdd(v1v1, v2v2), RMul(Num(2), v1v2))
From2Inner(v1v1, v1v2, v2v2) ==
    From2Cost(RMul(Num(-1), RDiv(RSub(v1v2, v2v2), From2Den(v1v1, v1v2, v2v2))),
              v1v2, v2v2)

\* Faulty variant: the two clamped cases are missing.
From2Unclamped(v1v1, v1v2, v2v2) ==
    IF Unrep \in {v1v1, v1v2, v2v2} THEN <<Unrep, Unrep>>
    ELSE From2Inner(v1v1, v1v2, v2v2)
\* Faulty variant: the two clamped cases are tested in the other order.
From2Swapped(v1v1, v1v2, v2v2) ==
    IF Unrep \in {v1v1, v1v2, v2v2} THEN <<Unrep, Unrep>>
    ELSE IF RGe(v1v2, v2v2) THEN <<Gamma001, v2v2>>
    ELSE IF RGe(v1v2, v1v1) THEN <<Gamma999, v1v1>>
    ELSE From2Inner(v1v1, v1v2, v2v2)

\* Faulty variant: the two tests are strict, so that equal Gram entries reach
\* the division.
From2Strict(v1v1, v1v2, v2v2) ==
    IF Unrep \in {v1v1, v1v2, v2v2} THEN <<Unrep, Unrep>>
    ELSE IF RGt(v1v2, v1v1) THEN <<Gamma999, v1v1>>
    ELSE IF RGt(v1v2, v2v2) THEN <<Gamma001, v2v2>>
    ELSE From2Inner(v1v1, v1v2, v2v2)
\* MGDASolver._min_norm_element_from2: <<gamma, cost>>.
_min_norm_element_from2(v1v1, v1v2, v2v2) ==
    IF Unrep \in {v1v1, v1v2, v2v2} THEN <<Unrep, Unrep>>
    ELSE IF RGe(v1v2, v1v1) THEN <<Gamma999, v1v1>>
    ELSE IF RGe(v1v2, v2v2) THEN <<Gamma001, v2v2>>
    ELSE From2Inner(v1v1, v1v2, v2v2)

\* The value of sol before any pair has been kept (Python: sol = 0).
NoSol == <<>>

\* dps with the entry for key, computed as val, added when it is missing.
Cached(dps, key, val) == IF key \in DOMAIN dps THEN dps ELSE (key :> val) @@ dps
CachedPair(dps, i, j, val) ==
    IF <<i, j>> \in DOMAIN dps THEN dps ELSE (<<i, j>> :> val) @@ (<<j, i>> :> val) @@ dps

\* Lines 67-69: keep the pair when its cost is below dmin.  st = [dmin, sol, dps,
\* rep]; rep: every number computed so far is representable.
KeepIfLess(i, j, st, dps, cd) ==
    IF RLt(cd[2], st.dmin)
    THEN [dmin |-> cd[2], sol |-> <<<<i, j>>, cd[1], cd[2]>>, dps |-> dps,
          rep |-> st.rep]
    ELSE [dmin |-> st.dmin, sol |-> st.sol, dps |-> dps,
          rep |-> st.rep /\ cd[2] # Unrep]
SolvePair(i, j, st, dps) ==
    KeepIfLess(i, j, st, dps,
               _min_norm_element_from2(dps[<<i, i>>], dps[<<i, j>>], dps[<<j, j>>]))
\* The body of the double loop of _min_norm_2d for the pair (i, j), lines 48-69.
\* The three sums run over range(len(vecs[i])).
PairStep(vecs, i, j, st) ==
    SolvePair(i, j, st,
        Cached(Cached(CachedPair(st.dps, i, j,
                                 DotFrom(vecs[i], vecs[j], 1, Len(vecs[i]))),
                      <<i, i>>, DotFrom(vecs[i], vecs[i], 1, Len(vecs[i]))),
               <<j, j>>, DotFrom(vecs[j], vecs[j], 1, Len(vecs[i]))))

\* The double loop of lines 46-69 from the pair (i, j) on.  The scan is cut
\* short once a number has left the numbers of the model (rep is false): the
\* caller then leaves the call undecided whatever the later pairs give.
RECURSIVE ScanPairs(_, _, _, _)
ScanPairs(vecs, i, j, st) ==
    IF ~st.rep \/ i > Len(vecs) THEN st
    ELSE IF j > Len(vecs) THEN ScanPairs(vecs, i + 1, i + 2, st)
    ELSE ScanPairs(vecs, i, j + 1, PairStep(vecs, i, j, st))

\* MGDASolver._min_norm_2d: [dmin, sol, dps, rep], of which the code returns sol
\* and dps.
_min_norm_2d(vecs, dps) ==
    ScanPairs(vecs, 1, 2, [dmin |-> DMin0, sol |-> NoSol, dps |-> dps, rep |-> TRUE])

\* The loop of _projection2simplex, lines 81-86, from index i on: tmax_f.
RECURSIVE ProjScan(_, _, _, _)
ProjTest(sorted_y, i, tmpsum, tmax_f, tmax) ==
    IF tmax = Unrep THEN Unrep
    ELSE IF RGt(tmax, sorted_y[i + 1]) THEN tmax
    ELSE ProjScan(sorted_y, i + 1, tmpsum, tmax_f)
ProjAdd(sorted_y, i, tmpsum, tmax_f) ==
    ProjTest(sorted_y, i, tmpsum, tmax_f, RDiv(RSub(tmpsum, One), Num(i)))
ProjScan(sorted_y, i, tmpsum, tmax_f) ==
    IF i > Len(sorted_y) - 1 THEN tmax_f
    ELSE ProjAdd(sorted_y, i, RAdd(tmpsum, sorted_y[i]), tmax_f)

\* Faulty variant: y - tmax_f, without the maximum with 0.
ProjShift(y, tmax_f) == [i \in 1..Len(y) |-> RSub(y[i], tmax_f)]
\* Line 87: np.maximum(y - tmax_f, 0).
ProjClip(y, tmax_f) == [i \in 1..Len(y) |-> RMax(RSub(y[i], tmax_f), Zero)]

\* MGDASolver._projection2simplex.
_projection2simplex(y) ==
    IF AnyUnrep(y) THEN UnrepVec(Len(y))
    ELSE ProjClip(y, ProjScan(SortDesc(y), 1, Zero,
                              RDiv(RSub(RSum(y), One), Num(Len(y)))))

\* Lines 96-104 of _next_point: the step t, the step and the projection.
StepTo(cur_val, proj_grad, n, t) ==
    _projection2simplex([i \in 1..n |-> RAdd(RMul(proj_grad[i], t), cur_val[i])])
StepMin2(t, big2) == IF big2 # {} THEN RMin(t, MinOf(big2)) ELSE t
StepMin1(big1) == IF big1 # {} THEN MinOf(big1) ELSE One
StepSize(tm1, tm2) ==
    StepMin2(StepMin1({x \in tm1 : RGt(x, TEps)}), {x \in tm2 : RGt(x, TEps)})
NextFrom(cur_val, proj_grad, n, tm1, tm2) ==
    IF AnyUnrep(cur_val) \/ AnyUnrep(proj_grad) \/ Unrep \in (tm1 \cup tm2)
    THEN UnrepVec(n)
    ELSE StepTo(cur_val, proj_grad, n, StepSize(tm1, tm2))
\* Lines 92-93: tm1 and tm2, as the sets of their entries.
NextAlong(cur_val, proj_grad, n) ==
    NextFrom(cur_val, proj_grad, n,
             {RDiv(RMul(Num(-1), cur_val[i]), proj_grad[i]) :
                  i \in {k \in 1..n : RLt(proj_grad[k], Zero)}},
             {RDiv(RSub(One, cur_val[i]), proj_grad[i]) :
                  i \in {k \in 1..n : RGt(proj_grad[k], Zero)}})
\* Faulty variant: the mean is not subtracted.
Uncentred(grad, n, mean) == [i \in 1..n |-> grad[i]]
\* Line 91: proj_grad
Centred(grad, n, mean) == [i \in 1..n |-> RSub(grad[i], mean)]

\* MGDASolver._next_point.
_next_point(cur_val, grad, n) ==
    NextAlong(cur_val, Centred(grad, n, RDiv(RSum(grad), Num(n))), n)

\* sum_i sum_j a[i] * b[j] * dps[(i, j)], lines 143-147, from the k-th term on.
RECURSIVE QuadFrom(_, _, _, _, _)
QuadFrom(a, b, dps, n, k) ==
    IF k > n * n THEN Zero
    ELSE RAdd(RMul(RMul(a[((k - 1) \div n) + 1], b[((k - 1) % n) + 1]),
                   dps[<<((k - 1) \div n) + 1, ((k - 1) % n) + 1>>]),
              QuadFrom(a, b, dps, n, k + 1))

\* np.dot(grad_mat, v)[i], with grad_mat[i, j] = dps[(i, j)], from column j on.
RECURSIVE RowDot(_, _, _, _, _)
RowDot(dps, v, i, n, j) ==
    IF j > n THEN Zero
    ELSE RAdd(RMul(dps[<<i, j>>], v[j]), RowDot(dps, v, i, n, j + 1))

\* np.sum(np.abs(a - b)).
L1Change(a, b) == RSum([i \in DOMAIN a |-> RAbs(RSub(a[i], b[i]))])

\* What one loop body hands to the test of lines 155-158.  rep: every number of
\* the pass is representable.
BodyResult(sol_vec, new_point, ncnd, new_sol_vec) ==
    [new_point |-> new_point, nc |-> ncnd[1], nd |-> ncnd[2],
     new_sol_vec |-> new_sol_vec, change |-> L1Change(new_sol_vec, sol_vec),
     rep |-> ~AnyUnrep(new_point) /\ ~AnyUnrep(new_sol_vec)
             /\ ncnd[2] # Unrep /\ L1Change(new_sol_vec, sol_vec) # Unrep]

\* Line 152: nc * sol_vec + (1 - nc) * new_point.
Blend(sol_vec, new_point, n, ncnd) ==
    BodyResult(sol_vec, new_point, ncnd,
               [i \in 1..n |-> RAdd(RMul(ncnd[1], sol_vec[i]),
                                    RMul(RSub(One, ncnd[1]), new_point[i]))])
LineSearch(sol_vec, dps, n, new_point) ==
    Blend(sol_vec, new_point, n,
          _min_norm_element_from2(QuadFrom(sol_vec, sol_vec, dps, n, 1),
                                  QuadFrom(sol_vec, new_point, dps, n, 1),
                                  QuadFrom(new_point, new_point, dps, n, 1)))

\* The body of the while loop of find_min_norm_element, lines 137-155.
LoopBody(sol_vec, dps, n) ==
    LineSearch(sol_vec, dps, n,
               _next_point(sol_vec,
                           [i \in 1..n |-> RMul(Num(-1), RowDot(dps, sol_vec, i, n, 1))],
                           n))

\* np.argmin(gs): the first index of the least entry.
ArgMin(gs, n) ==
    CHOOSE i \in 1..n : /\ \A j \in 1..n : RLe(gs[i], gs[j])
                        /\ \A j \in 1..(i - 1) : ~RLe(gs[j], gs[i])
\* Lines 206-207: nc * sol_vec, then 1 - nc added at t_iter.
FWBlend(sol_vec, n, t_iter, ncnd) ==
    BodyResult(sol_vec, [i \in 1..n |-> IF i = t_iter THEN One ELSE Zero], ncnd,
               [i \in 1..n |-> IF i = t_iter
                               THEN RAdd(RMul(ncnd[1], sol_vec[i]), RSub(One, ncnd[1]))
                               ELSE RMul(ncnd[1], sol_vec[i])])
FWSearch(sol_vec, dps, n, gs, t_iter) ==
    FWBlend(sol_vec, n, t_iter,
            _min_norm_element_from2(
                RSum([i \in 1..n |-> RMul(sol_vec[i], gs[i])]),
                RSum([i \in 1..n |-> RMul(sol_vec[i], dps[<<i, t_iter>>])]),
                dps[<<t_iter, t_iter>>]))
FWVertex(sol_vec, dps, n, gs) ==
    IF AnyUnrep(gs)
    THEN BodyResult(sol_vec, UnrepVec(n), <<Unrep, Unrep>>, UnrepVec(n))
    ELSE FWSearch(sol_vec, dps, n, gs, ArgMin(gs, n))

\* The body of the while loop of find_min_norm_element_FW, lines 199-209.
FWBody(sol_vec, dps, n) ==
    FWVertex(sol_vec, dps, n, [i \in 1..n |-> RowDot(dps, sol_vec, i, n, 1)])

\* sol_vec of lines 120-123: zeros, init_sol[1] at the first index of the pair
\* and 1 - init_sol[1] at the second.
SeedVec(n, init_sol) ==
    [i \in 1..n |-> IF i = init_sol[1][2] THEN RSub(One, init_sol[2])
                    ELSE IF i = init_sol[1][1] THEN init_sol[2]
                    ELSE Zero]

\* The Python type of the sol that _min_norm_2d returns: the int 0, or the list
\* [(i, j), c, d].
PyType(sol) == IF sol = NoSol THEN "int" ELSE "list"

\* The guard of find_min_norm_element_FW, line 178.
InvalidInitSol(init_sol) == PyType(init_sol) # "tuple" \/ Len(init_sol) # 3

\* ------------------------------------------------------------ get_scales
\* The integer square root of n >= 0, searched between lo and hi.
RECURSIVE SqrtSearch(_, _, _)
SqrtSearch(n, lo, hi) ==
    IF lo >= hi THEN lo
    ELSE IF ((lo + hi + 1) \div 2) * ((lo + hi + 1) \div 2) <= n
    THEN SqrtSearch(n, (lo + hi + 1) \div 2, hi)
    ELSE SqrtSearch(n, lo, ((lo + hi + 1) \div 2) - 1)
ISqrt(n) == SqrtSearch(n, 0, 31622)
\* The square root of a number a >= 0: exact when a is the square of a rational,
\* not representable otherwise.
RootOf(a, rn, rd) == IF rn * rn = a[1] /\ rd * rd = a[2] THEN <<rn, rd>> ELSE Unrep
RSqrt(a) ==
    IF ~IsNum(a) THEN a
    ELSE IF a[1] < 0 THEN NaN
    ELSE RootOf(a, ISqrt(a[1]), ISqrt(a[2]))

\* sum of gr.pow(2).sum() over the tensors gr of one task gradient.
SquaredNorm(g) == DotFrom(g, g, 1, Len(g))
\* losses[t].mean(): a loss is a tensor, here a sequence of numbers.
Mean(x) == RDiv(RSum(x), Num(Len(x)))
Ten == <<10, 1>>
\* 1e-5, the guard of the division in get_scales.
NormEps == <<1, 100000>>

NormModes == {"l2", "loss", "loss+", "none", "eq"}
\* gn[t] of gradient_normalizers for a valid mode.
NormOf(g, loss, normalization_type) ==
    IF normalization_type = "l2" THEN RSqrt(SquaredNorm(g))
    ELSE IF normalization_type = "loss" THEN RMin(Mean(loss), Ten)
    ELSE IF normalization_type = "loss+" THEN RMin(RMul(Mean(loss), RSqrt(SquaredNorm(g))), Ten)
    ELSE One
\* Faulty variant: every mode string is accepted.
NormalizersAnyMode(grads, losses, normalization_type) ==
    [err |-> FALSE,
     gn |-> [t \in DOMAIN grads |-> NormOf(grads[t], losses[t], normalization_type)]]
\* gradient_normalizers: [err, gn]; err stands for the ValueError.
gradient_normalizers(grads, losses, normalization_type) ==
    IF normalization_type \in NormModes
    THEN [err |-> FALSE,
          gn |-> [t \in DOMAIN grads |-> NormOf(grads[t], losses[t], normalization_type)]]
    ELSE [err |-> TRUE, gn |-> <<>>]

\* Faulty variant: the caller's gradients are left as they are.
NotNormalized(grads, gn, tasks) == grads
\* Lines 218-220: the gradients of the listed tasks divided, in place, by
\* gn[t] + 1e-5.
Normalized(grads, gn, tasks) ==
    [t \in DOMAIN grads |->
        IF \E z \in DOMAIN tasks : tasks[z] = t
        THEN [k \in DOMAIN grads[t] |-> RDiv(grads[t][k], RAdd(gn[t], NormEps))]
        ELSE grads[t]]

\* Lines 222-223: scale[t] = float(sol[zi]) for zi, t in enumerate(tasks).
ScaleMap(tasks, sol) ==
    [t \in {tasks[z] : z \in DOMAIN tasks} |->
        sol[CHOOSE z \in DOMAIN tasks :
                tasks[z] = t /\ \A y \in DOMAIN tasks : y > z => tasks[y] # t]]

\* ------------------------------------------------------------ CKA (src/defences/cka.py)
\* A matrix is a sequence of rows, a row a sequence of numbers.
\* The tensors are float32: adding 1e-12 to a value of at least 1e-4 leaves the
\* value as it is, and adding it to 0 gives 1e-12.  Values strictly between are
\* beyond the model (Unrep).
Absorbing == <<1, 10000>>
\* math.sqrt(1e-12)
RootEps == <<1, 1000000>>
\* t / (d + 1e-12)
DivPlusEps(t, d) ==
    IF ~(IsNum(t) /\ IsNum(d)) THEN NoNum(t, d)
    ELSE IF RGe(RAbs(d), Absorbing) THEN RDiv(t, d)
    ELSE IF d = Zero /\ t = Zero THEN Zero
    ELSE Unrep
\* Faulty variant: math.sqrt(x), without the 1e-12.
SqrtNoEps(x) == IF ~IsNum(x) THEN x ELSE RSqrt(x)
\* math.sqrt(x + 1e-12)
SqrtPlusEps(x) ==
    IF ~IsNum(x) THEN x
    ELSE IF x = Zero THEN RootEps
    ELSE IF RGe(RAbs(x), Absorbing) THEN RSqrt(x)
    ELSE Unrep

\* A.mean(0): the mean of column c, summed from row r down.
RECURSIVE ColSum(_, _, _)
ColSum(A, c, r) == IF r = 0 THEN Zero ELSE RAdd(A[r][c], ColSum(A, c, r - 1))
ColMean(A, c) == RDiv(ColSum(A, c, Len(A)), Num(Len(A)))
_center(A) ==
    Eager([r \in DOMAIN A |-> Eager([c \in DOMAIN A[r] |-> RSub(A[r][c], ColMean(A, c))])])
\* Xc @ Xc.T
GramOf(Xc) ==
    Eager([i \in DOMAIN Xc |->
        Eager([j \in DOMAIN Xc |-> DotFrom(Xc[i], Xc[j], 1, Len(Xc[i]))])])
ColOf(L, i) == Eager([j \in DOMAIN L |-> L[j][i]])
\* torch.trace(K @ L), summed from row i down.
RECURSIVE TraceFrom(_, _, _)
TraceFrom(K, L, i) ==
    IF i = 0 THEN Zero
    ELSE RAdd(DotFrom(K[i], ColOf(L, i), 1, Len(K)), TraceFrom(K, L, i - 1))
_hsic(K, L) == DivPlusEps(TraceFrom(K, L, Len(K)), Num((Len(K) - 1) * (Len(K) - 1)))
\* Faulty variant: the similarity is normalised by the first matrix alone.
CkaByFirst(K, L) == RDiv(_hsic(K, L), SqrtPlusEps(RMul(_hsic(K, K), _hsic(K, K))))
\* Faulty variant: the similarity is not normalised.
CkaRaw(K, L) == _hsic(K, L)
CkaOf(K, L) == RDiv(_hsic(K, L), SqrtPlusEps(RMul(_hsic(K, K), _hsic(L, L))))
cka(X, Y) == CkaOf(GramOf(_center(X)), GramOf(_center(Y)))

\* The template model: one linear layer, the probed one, with two inputs and
\* one output.  An update maps the parameter names to tensors.
ParamNames == {"weight", "bias"}
\* The inputs of the root loader (the reference set).
RootX == <<ToNums(<<0, 0>>), ToNums(<<1, 0>>), ToNums(<<0, 1>>)>>
\* FedAvgCKA._acts: the outputs of the probed layer on the reference set, one
\* row per reference input.
_acts(weights) ==
    Eager([r \in DOMAIN RootX |->
        <<RAdd(DotFrom(RootX[r], weights["weight"], 1, 2), weights["bias"][1])>>])

\* Faulty variant: sim[j, i] is not assigned.
SimUpper(acts) ==
    Eager([i \in DOMAIN acts |-> Eager([j \in DOMAIN acts |->
        IF i <= j THEN cka(acts[i], acts[j]) ELSE Zero])])
\* Lines 55-58: sim[i, j] = sim[j, i] = cka(acts[i], acts[j]) for i <= j.
SimMatrix(acts) ==
    Eager([i \in DOMAIN acts |-> Eager([j \in DOMAIN acts |->
        IF i <= j THEN cka(acts[i], acts[j]) ELSE cka(acts[j], acts[i])])])
\* sim.mean(1)
RowMeans(s) == Eager([i \in DOMAIN s |-> Mean(s[i])])

Floor(a) == a[1] \div a[2]
Ceil(a) == -((-a[1]) \div a[2])
Reverse(s) == Eager([i \in DOMAIN s |-> s[Len(s) + 1 - i]])
SortAsc(x) == Reverse(SortDesc(x))
\* torch.lerp
Lerp(a, b, w) == RAdd(a, RMul(w, RSub(b, a)))
\* Faulty variant: the quantile takes the lower neighbour instead of interpolating.
LowerAt(s, pos) == s[Floor(pos) + 1]
\* The value at the fractional rank pos (from 0) of the ascending s.
QuantileAt(s, pos) ==
    Lerp(s[Floor(pos) + 1], s[Ceil(pos) + 1], RSub(pos, Num(Floor(pos))))
\* torch.quantile(x, q), linear interpolation, for non-empty x and 0 <= q <= 1;
\* NaN when x holds a NaN.
Quantile(x, q) ==
    IF AnyUnrep(x) THEN Unrep
    ELSE IF \E i \in DOMAIN x : x[i] = NaN THEN NaN
    ELSE QuantileAt(SortAsc(x), RMul(q, Num(Len(x) - 1)))
\* torch.quantile raises a RuntimeError for an empty tensor and for q outside [0, 1].
QuantileRaises(x, q) == Len(x) = 0 \/ ~(RGe(q, Zero) /\ RLe(q, One))

Indices(m) == Eager([i \in 1..m |-> i])
\* Faulty variant: the test is mean > thr.
KeepAbove(mean, thr) == SelectSeq(Indices(Len(mean)), LAMBDA i : RGt(mean[i], thr))
\* (mean >= thr).nonzero().flatten().tolist()
KeepIdx(mean, thr) == SelectSeq(Indices(Len(mean)), LAMBDA i : RGe(mean[i], thr))
\* Faulty variant: no fallback when the test leaves no client.
KeepOnly(idx, m) == idx
\* Lines 62-64: the fallback to all clients.
KeepOrAll(idx, m) == IF Len(idx) = 0 THEN Indices(m) ELSE idx
\* Faulty variant: every update is aggregated.
KeptAll(lw, idx) == lw
\* Lines 65-67
Kept(lw, idx) == Eager([p \in DOMAIN idx |-> lw[idx[p]]])
\* The state dicts that lines 69-74 work on: objs[1..n] are the kept updates
\* (the very objects of the caller's list), and agg is objs[at].
\* Faulty variant: agg = kept[0], without the deep copy.
FirstAlias(kept) == [objs |-> Append(kept, kept[1]), at |-> 1]
\* Line 69: agg = copy.deepcopy(kept[0]), a new object.
FirstCopy(kept) == [objs |-> Append(kept, kept[1]), at |-> Len(kept) + 1]
\* The order of agg.keys().
KeyOrder == <<"weight", "bias">>
\* Line 72: agg[k].zero_()
ZeroAt(objs, a, k) == [objs EXCEPT ![a][k] = Eager([e \in DOMAIN @ |-> Zero])]
\* Line 73, for the kept update p: agg[k] += w[k]
AddAt(objs, a, k, p) ==
    [objs EXCEPT ![a][k] = Eager([e \in DOMAIN @ |-> RAdd(@[e], objs[p][k][e])])]
RECURSIVE AddKept(_, _, _, _, _)
AddKept(objs, a, k, p, n) ==
    IF p > n THEN objs ELSE AddKept(AddAt(objs, a, k, p), a, k, p + 1, n)
\* Line 74: agg[k] /= len(kept)
DivAt(objs, a, k, n) ==
    [objs EXCEPT ![a][k] = Eager([e \in DOMAIN @ |-> RDiv(@[e], Num(n))])]
\* Lines 71-74, for the keys ks in turn.
RECURSIVE EachKey(_, _, _, _)
EachKey(objs, a, ks, n) ==
    IF ks = <<>> THEN objs
    ELSE EachKey(DivAt(AddKept(ZeroAt(objs, a, Head(ks)), a, Head(ks), 1, n),
                       a, Head(ks), n),
                 a, Tail(ks), n)
Accumulate(c, n) == [objs |-> EachKey(c.objs, c.at, KeyOrder, n), at |-> c.at]
\* Lines 69-74, for a non-empty kept: the objects after the loops.
Accumulated(kept) == Accumulate(FirstCopy(kept), Len(kept))
AggOf(c) == c.objs[c.at]
\* Lines 69-74, for a non-empty kept: agg.
Aggregate(kept) == AggOf(Accumulated(kept))
\* The caller's list lw after lines 69-74: lw[idx[p]] is the object objs[p].
InputsAfter(lw, idx, objs) ==
    Eager([i \in DOMAIN lw |->
        IF \E p \in DOMAIN idx : idx[p] = i
        THEN objs[CHOOSE p \in DOMAIN idx : idx[p] = i]
        ELSE lw[i]])

\* The state dict of the template model an object is built with.
TemplateDict == [k \in ParamNames |-> IF k = "weight" THEN <<Zero, Zero>> ELSE <<Zero>>]
\* Lines 46-47: m = copy.deepcopy(self.template); m.load_state_dict(weights).
\* <<the template, m>> afterwards.
LoadCopy(tmpl, weights) == <<tmpl, weights>>
\* Line 54: the template after _acts has run for lw[i], lw[i + 1], ...
RECURSIVE TemplateAfter(_, _, _)
TemplateAfter(tmpl, lw, i) ==
    IF i > Len(lw) THEN tmpl
    ELSE TemplateAfter(LoadCopy(tmpl, lw[i])[1], lw, i + 1)
SimUnrep(s) == \E i \in DOMAIN s : AnyUnrep(s[i])
AggUnrep(a) == \E k \in DOMAIN a : AnyUnrep(a[k])

\* ------------------------------------------------------------ state
VARIABLES
    pc,         \* "idle" | "loop" | "returned" | "raised" | "unrep"
    fn,         \* the solver called: "pgd" (find_min_norm_element) | "fw"
    outer,      \* "get_scales" when the call comes from get_scales, else "none"
    vecs,       \* the argument of the solver: a sequence of task gradients
    dps,        \* the cache of inner products
    init_sol,   \* what _min_norm_2d returned as sol
    sol_vec,    \* the current iterate
    iter_count, \* the local iter_count of the solver
    passes,     \* the loop bodies executed in this call
    ret,        \* <<>> before a return; <<weights, cost>>; <<"None">>
    scale,      \* the map get_scales returns; <<>> before
    call,       \* the arguments of get_scales: [tasks, grads, losses, mode]
    grads,      \* the caller's gradient mapping, which get_scales writes
    h_in,       \* the arguments of a function applied on its own
    h_out,      \* its result; <<>> before the application
    d_pc,       \* filter_and_aggregate: "idle" | "returned" | "raised" | "unrep"
    drop,       \* FedAvgCKA.drop, the discard ratio
    last_sim,   \* FedAvgCKA.last_sim; <<"unset">> before the first call
    locals_w,   \* the argument of filter_and_aggregate (the caller's list)
    given,      \* the values of that list when the call began
    template,   \* the state dict of self.template
    keep_idx,   \* the four values filter_and_aggregate returns
    kept,
    agg,
    sim,
    params,     \* Attack.params: loss_tasks, loss_balance, loss_threshold, fixed_scales
    cls_hist,   \* Attack.loss_hist, the class attribute
    own_hist,   \* self.loss_hist, the instance attribute
    own_bound,  \* whether the instance attribute exists
    calls,      \* the calls of compute_blind_loss so far
    logged,     \* len(params.running_losses['total'])
    a_pc,       \* the last call: "idle" | "returned" | "raised"
    a_attack,   \* its argument attack
    a_seen,     \* the history its gate read
    a_tasks,    \* its loss_tasks after lines 49-60
    a_scale,    \* its scale
    a_solver,   \* whether it called MGDASolver.get_scales
    a_fixed,    \* whether it read params.fixed_scales
    a_loss,     \* <<the normal loss it appended>>, or <<>>
    a_blind,    \* <<the value it returned>>, or <<>>
    r_pc,       \* run_fl_round: "idle" | "user" | "train" | "global" | "done"
    fl_params,  \* hlpr.params: fl_local_epochs and fl_weight_scale
    global_model,       \* hlpr.task.model (one parameter)
    local_model,        \* hlpr.task.local_model
    round_participants, \* the users of the round: whether each is compromised
    weight_accumulator,
    user,               \* the index of the participant in the loop, 0 before
    local_epoch,        \* the passes of the inner loop made for that participant
    global_at_start,    \* the global model when the round began
    local_starts,       \* the local model after line 168, per participant
    train_log,          \* the calls of train: <<participant, attack>>
    acc_log,            \* the calls of accumulate_weights: participant, update
                        \* as computed (raw) and as accumulated (added)
    global_writes       \* the calls of update_global_model

solverVars == <<pc, fn, outer, vecs, dps, init_sol, sol_vec, iter_count, passes, ret,
                scale, call, grads>>
harnessVars == <<h_in, h_out>>
ckaVars == <<d_pc, drop, last_sim, locals_w, given, template, keep_idx, kept, agg, sim>>
attackVars == <<params, cls_hist, own_hist, own_bound, calls, logged, a_pc, a_attack,
                a_seen, a_tasks, a_scale, a_solver, a_fixed, a_loss, a_blind>>
flVars == <<r_pc, fl_params, global_model, local_model, round_participants,
            weight_accumulator, user, local_epoch, global_at_start, local_starts,
            train_log, acc_log, global_writes>>
vars == <<solverVars, harnessVars, ckaVars, attackVars, flVars>>

\* ------------------------------------------------------------ inputs
\* The task gradients a call may be given.
GradChoices ==
    {<<0, 0>>, <<1, 0>>, <<0, 1>>, <<1, 1>>, <<-1, 1>>, <<10000, 0>>}
\* Five mutually orthogonal unit gradients.
UnitGrads == [i \in 1..5 |-> [k \in 1..5 |-> IF i = k THEN One ELSE Zero]]
\* Three gradients whose best pair is one pass short of the optimum.
NearOptimum == <<ToNums(<<-1, 0>>), ToNums(<<0, 0>>), ToNums(<<0, 100>>)>>
VecLists ==
    (UNION {[1..n -> {ToNums(g) : g \in GradChoices}] : n \in 2..MaxTasks})
        \cup {UnitGrads, NearOptimum}

EmptyDict == <<>>
NoCall == <<>>

\* The arguments of get_scales.
TaskNames == <<"normal", "backdoor", "neural_cleanse", "sentinet_evasion",
               "mask_norm", "neural_cleanse_part1">>
TaskLists == {SubSeq(TaskNames, 1, n) : n \in 2..MaxTasks}
TaskSet(tasks) == {tasks[z] : z \in DOMAIN tasks}
ScaleGrads == {ToNums(<<1, 0>>), ToNums(<<0, 1>>), ToNums(<<3, 4>>)}
\* Loss tensors with the means 0.99999, 1.99999 and 20.
LossChoices == {<<Frac(99999, 100000)>>,
                <<Frac(99999, 100000), Frac(299999, 100000)>>,
                <<Num(20)>>}
ModeChoices == NormModes \cup {"l1"}

\* ------------------------------------------------------------ solver actions
\* Lines 120-134 of find_min_norm_element (fw = FALSE) and lines 177-196 of
\* find_min_norm_element_FW (fw = TRUE), once _min_norm_2d has returned r.
Seed(n, fw, r) ==
    IF ~r.rep
    THEN pc' = "unrep" /\ sol_vec' = <<>> /\ ret' = <<>>
    ELSE IF fw /\ InvalidInitSol(r.sol)
    THEN /\ pc' = "returned"
         /\ sol_vec' = <<>>
         /\ ret' = <<[i \in 1..n |-> RDiv(One, Num(n))], One>>
    ELSE IF r.sol = NoSol
    \* init_sol[0][0] on the int 0: TypeError
    THEN pc' = "raised" /\ sol_vec' = <<>> /\ ret' = <<>>
    ELSE /\ sol_vec' = SeedVec(n, r.sol)
         /\ IF n < 3
            THEN pc' = "returned" /\ ret' = <<SeedVec(n, r.sol), r.sol[3]>>
            ELSE pc' = "loop" /\ ret' = <<>>

DpsOf(r) == r.dps
SolOf(r) == r.sol
SolverEntry(v, fw, from) ==
    /\ vecs' = v
    /\ fn' = IF fw THEN "fw" ELSE "pgd"
    /\ outer' = from
    /\ iter_count' = 0
    /\ passes' = 0
    /\ Seed(Len(v), fw, _min_norm_2d(v, EmptyDict))
    /\ dps' = DpsOf(_min_norm_2d(v, EmptyDict))
    /\ init_sol' = SolOf(_min_norm_2d(v, EmptyDict))
    /\ UNCHANGED <<harnessVars, ckaVars, attackVars, flVars>>

find_min_norm_element ==
    \E v \in VecLists :
        /\ pc = "idle"
        /\ SolverEntry(v, FALSE, "none")
        /\ scale' = <<>>
        /\ UNCHANGED <<call, grads>>

find_min_norm_element_FW ==
    \E v \in VecLists :
        /\ pc = "idle"
        /\ SolverEntry(v, TRUE, "none")
        /\ scale' = <<>>
        /\ UNCHANGED <<call, grads>>

\* get_scales, lines 216-221, for the arguments c, up to the call of the solver;
\* lines 222-225 follow the return of the solver.
ScalesEntry(c, n) ==
    /\ call' = c
    /\ IF n.err
       THEN \* ValueError of gradient_normalizers
            /\ pc' = "raised"
            /\ grads' = c.grads
            /\ vecs' = <<>> /\ fn' = "pgd" /\ outer' = "get_scales"
            /\ dps' = EmptyDict /\ init_sol' = NoSol /\ sol_vec' = <<>>
            /\ iter_count' = 0 /\ UNCHANGED <<harnessVars, ckaVars, attackVars, flVars>>
            /\ passes' = 0 /\ ret' = <<>> /\ scale' = <<>>
       ELSE /\ grads' = Normalized(c.grads, n.gn, c.tasks)
            /\ SolverEntry([z \in DOMAIN c.tasks |-> grads'[c.tasks[z]]],
                           FALSE, "get_scales")
            /\ scale' = IF pc' = "returned" THEN ScaleMap(c.tasks, ret'[1]) ELSE <<>>

get_scales ==
    \E tasks \in TaskLists, losses \in LossChoices, mode \in ModeChoices :
        \E g \in [TaskSet(tasks) -> ScaleGrads] :
            /\ pc = "idle"
            /\ ScalesEntry([tasks |-> tasks, grads |-> g,
                            losses |-> [t \in TaskSet(tasks) |-> losses],
                            mode |-> mode],
                           gradient_normalizers(g, [t \in TaskSet(tasks) |-> losses], mode))

\* A faulty variant of the test: on convergence it returns the blended weights.
ReturnBlend(b) ==
    IF ~b.rep
    THEN pc' = "unrep" /\ UNCHANGED <<sol_vec, ret>>
    ELSE IF RLt(b.change, STOP_CRIT)
    THEN pc' = "returned" /\ ret' = <<b.new_sol_vec, b.nd>> /\ UNCHANGED sol_vec
    ELSE pc' = "loop" /\ sol_vec' = b.new_sol_vec /\ UNCHANGED ret

\* The test of lines 155-158 (209-212) on the result b of a loop body.
LoopTest(b) ==
    IF ~b.rep
    THEN pc' = "unrep" /\ UNCHANGED <<sol_vec, ret>>
    ELSE IF RLt(b.change, STOP_CRIT)
    THEN pc' = "returned" /\ ret' = <<sol_vec, b.nd>> /\ UNCHANGED sol_vec
    ELSE pc' = "loop" /\ sol_vec' = b.new_sol_vec /\ UNCHANGED ret

\* One evaluation of the while condition and, if it holds, of the loop body
\* (lines 136-158, and 198-212 for the Frank-Wolfe variant).  No statement of
\* either loop assigns iter_count.
LoopPass ==
    /\ pc = "loop"
    /\ passes < MaxPasses
    /\ UNCHANGED <<fn, outer, vecs, dps, init_sol, iter_count, call, grads>>
    /\ UNCHANGED <<harnessVars, ckaVars, attackVars, flVars>>
    /\ IF ~(iter_count < MAX_ITER)
       THEN \* the function ends without a return statement: it returns None,
            \* which get_scales cannot unpack (TypeError)
            /\ pc' = IF outer = "get_scales" THEN "raised" ELSE "returned"
            /\ ret' = <<"None">>
            /\ UNCHANGED <<sol_vec, passes, scale>>
       ELSE /\ passes' = passes + 1
            /\ LoopTest(IF fn = "fw" THEN FWBody(sol_vec, dps, Len(vecs))
                        ELSE LoopBody(sol_vec, dps, Len(vecs)))
            /\ scale' = IF pc' = "returned" /\ outer = "get_scales"
                        THEN ScaleMap(call.tasks, ret'[1]) ELSE scale

SolverIdle ==
    /\ pc = "idle" /\ fn = "pgd" /\ outer = "none"
    /\ vecs = <<>> /\ dps = EmptyDict /\ init_sol = NoSol /\ sol_vec = <<>>
    /\ iter_count = 0 /\ passes = 0 /\ ret = <<>> /\ scale = <<>>
    /\ call = NoCall /\ grads = <<>>
HarnessIdle == h_in = <<>> /\ h_out = <<>>
Unset == <<"unset">>
\* A FedAvgCKA object with the discard ratio q, before a call.
CkaIdle(q) ==
    /\ d_pc = "idle" /\ drop = q /\ last_sim = Unset /\ locals_w = <<>>
    /\ given = <<>> /\ template = TemplateDict
    /\ keep_idx = <<>> /\ kept = <<>> /\ agg = <<>> /\ sim = <<>>
\* discard_ratio = 0.5, the default of FedAvgCKA.__init__
DefaultDrop == <<1, 2>>

\* An Attack object before its first call.
AttackIdle ==
    /\ a_pc = "idle" /\ cls_hist = <<>> /\ own_hist = <<>> /\ own_bound = FALSE
    /\ calls = 0 /\ logged = 0 /\ a_attack = FALSE /\ a_seen = <<>> /\ a_tasks = <<>>
    /\ a_scale = <<>> /\ a_solver = FALSE /\ a_fixed = FALSE /\ a_loss = <<>>
    /\ a_blind = <<>>
\* No Attack object.
NoParams == <<>>
NoAttack == AttackIdle /\ params = NoParams
\* No round of federated learning has begun.
NoRound ==
    /\ r_pc = "idle" /\ fl_params = <<>> /\ global_model = 0 /\ local_model = 0
    /\ round_participants = <<>> /\ weight_accumulator = 0 /\ user = 0
    /\ local_epoch = 0 /\ global_at_start = 0 /\ local_starts = <<>>
    /\ train_log = <<>> /\ acc_log = <<>> /\ global_writes = 0

SolverInit == SolverIdle /\ HarnessIdle /\ CkaIdle(DefaultDrop) /\ NoAttack /\ NoRound

SolverNext ==
    find_min_norm_element \/ find_min_norm_element_FW \/ get_scales \/ LoopPass

SolverSpec == SolverInit /\ [][SolverNext]_vars

\* ------------------------------------------------------------ the two-point solver on its own
\* Largest numerator of a Gram entry given to the two-point solver.
MaxGram == 3
GramVals == {Frac(k, d) : k \in (-MaxGram)..MaxGram, d \in {1, 2}}

From2Init ==
    /\ SolverIdle /\ CkaIdle(DefaultDrop) /\ NoAttack /\ NoRound
    /\ h_in \in GramVals \X GramVals \X GramVals /\ h_out = <<>>
ApplyFrom2 ==
    /\ h_out = <<>>
    /\ h_out' = _min_norm_element_from2(h_in[1], h_in[2], h_in[3])
    /\ UNCHANGED <<solverVars, h_in, ckaVars, attackVars, flVars>>
From2Spec == From2Init /\ [][ApplyFrom2]_vars

\* ------------------------------------------------------------ FedAvgCKA.filter_and_aggregate
\* Largest number of client updates in one call.
MaxClients == 3
\* The client updates a call may be given: the weights and the bias of the
\* probed layer.  The fourth gives the same activation on every reference
\* input, the last holds a NaN.
Update(w1, w2, b) == [k \in ParamNames |-> IF k = "weight" THEN ToNums(<<w1, w2>>) ELSE <<Num(b)>>]
NaNUpdate == [k \in ParamNames |-> IF k = "weight" THEN <<NaN, Zero>> ELSE <<Zero>>]
UpdateChoices ==
    {Update(1, 0, 0), Update(1, 1, 0), Update(1, -1, 1), Update(0, 0, 1), NaNUpdate}
\* The discard ratios an object may be built with; the last is out of range.
DiscardRatios == {Zero, <<1, 2>>, One, <<3, 2>>}

\* Lines 62-75, once the indices idx passed the test.
Survivors(lw, idx) ==
    /\ keep_idx' = idx
    /\ kept' = Kept(lw, idx)
    /\ IF Len(kept') = 0
       THEN \* kept[0]: IndexError
            d_pc' = "raised" /\ agg' = <<>> /\ locals_w' = lw
       ELSE /\ agg' = Aggregate(kept')
            /\ locals_w' = InputsAfter(lw, idx, Accumulated(kept').objs)
            /\ d_pc' = IF AggUnrep(agg') THEN "unrep" ELSE "returned"
\* Lines 60-75, for the similarity matrix s and its row means.
Filter(lw, s, mean) ==
    IF QuantileRaises(mean, drop)
    THEN /\ d_pc' = "raised" /\ sim' = <<>> /\ keep_idx' = <<>> /\ kept' = <<>>
         /\ agg' = <<>> /\ locals_w' = lw
    ELSE IF SimUnrep(s) \/ Quantile(mean, drop) = Unrep
    THEN /\ d_pc' = "unrep" /\ sim' = <<>> /\ keep_idx' = <<>> /\ kept' = <<>>
         /\ agg' = <<>> /\ locals_w' = lw
    ELSE /\ sim' = s
         /\ Survivors(lw, KeepOrAll(KeepIdx(mean, Quantile(mean, drop)), Len(lw)))
\* Lines 54-59
Similarity(lw, s) == last_sim' = s /\ Filter(lw, s, RowMeans(s))

filter_and_aggregate ==
    \E m \in 0..MaxClients : \E lw \in [1..m -> UpdateChoices] :
        /\ d_pc = "idle"
        /\ given' = lw
        /\ template' = TemplateAfter(template, lw, 1)
        /\ Similarity(lw, SimMatrix(Eager([i \in 1..m |-> _acts(lw[i])])))
        /\ UNCHANGED <<drop, solverVars, harnessVars, attackVars, flVars>>

CkaInit == SolverIdle /\ HarnessIdle /\ NoAttack /\ NoRound /\ \E q \in DiscardRatios : CkaIdle(q)
CkaSpec == CkaInit /\ [][filter_and_aggregate]_vars

\* ------------------------------------------------------------ the quantile test on its own
\* Largest number of clients of a similarity matrix given to the test.
MaxSim == 2
SimVals == {Zero, <<1, 4>>, <<1, 2>>, One}
\* The matrices lines 55-58 can leave in sim: sim[i, j] = sim[j, i].
UpperPairs(m) == {p \in (1..m) \X (1..m) : p[1] <= p[2]}
Mirrored(u, m) ==
    [i \in 1..m |-> [j \in 1..m |-> IF i <= j THEN u[<<i, j>>] ELSE u[<<j, i>>]]]
SimChoices(m) == {Mirrored(u, m) : u \in [UpperPairs(m) -> SimVals]}
\* Lines 59-75 for a similarity matrix s, in place of the one lines 54-58
\* compute from the m updates.
FilterGiven ==
    \E m \in 1..MaxSim : \E s \in SimChoices(m) :
        /\ d_pc = "idle"
        /\ given' = [i \in 1..m |-> Update(1, 0, 0)]
        /\ template' = TemplateAfter(template, given', 1)
        /\ Similarity(given', s)
        /\ UNCHANGED <<drop, solverVars, harnessVars, attackVars, flVars>>
SimSpec == CkaInit /\ [][FilterGiven]_vars

\* ------------------------------------------------------------ _projection2simplex on its own
\* Largest length of a vector given to _projection2simplex.
MaxDim == 3
ProjVals == {Num(-1), Zero, <<1, 4>>, <<1, 3>>, <<1, 2>>, One, Num(2)}
ProjInit ==
    /\ SolverIdle /\ CkaIdle(DefaultDrop) /\ NoAttack /\ NoRound
    /\ \E m \in 1..MaxDim : h_in \in [1..m -> ProjVals]
    /\ h_out = <<>>
ApplyProjection ==
    /\ h_out = <<>>
    /\ h_out' = _projection2simplex(h_in)
    /\ UNCHANGED <<solverVars, h_in, ckaVars, attackVars, flVars>>
ProjSpec == ProjInit /\ [][ApplyProjection]_vars


\* ------------------------------------------------------------ cka on its own
\* Largest absolute value of an entry of an activation matrix given to cka.
MaxEntry == 1
\* The activation matrices with n rows and one column.
Matrices(n) == [1..n -> {<<Num(e)>> : e \in (-MaxEntry)..MaxEntry}]
\* h_in = <<X, Y>>, two matrices with the same number of rows.
CkaFnInit ==
    /\ SolverIdle /\ CkaIdle(DefaultDrop) /\ NoAttack /\ NoRound
    /\ \E n \in 2..3 : h_in \in Matrices(n) \X Matrices(n)
    /\ h_out = <<>>
\* h_out = <<cka(X, Y), cka(Y, X)>>
ApplyCka ==
    /\ h_out = <<>>
    /\ h_out' = <<cka(h_in[1], h_in[2]), cka(h_in[2], h_in[1])>>
    /\ UNCHANGED <<solverVars, h_in, ckaVars, attackVars, flVars>>
CkaFnSpec == CkaFnInit /\ [][ApplyCka]_vars

\* ------------------------------------------------------------ Attack.compute_blind_loss (src/attack.py)
\* The code keeps the last 1000 losses (lines 59 and 108); the model keeps the
\* last HistSize, with the same two tests.
HistSize == 2
\* Largest number of calls of compute_blind_loss the model follows.
MaxCalls == 4

\* params: the configuration.  loss_threshold is <<>> for None, else <<x>>.
TaskConfigs == {<<"normal">>, <<"normal", "backdoor">>, <<"backdoor">>}
BalanceModes == {"MGDA", "fixed", "sum"}
Thresholds == {<<>>, <<Zero>>, <<Num(2)>>}
FixedScales == [t \in {"normal", "backdoor"} |-> IF t = "normal" THEN <<3, 10>> ELSE <<7, 10>>]
ParamChoices ==
    [loss_tasks : TaskConfigs, loss_balance : BalanceModes,
     loss_threshold : Thresholds, fixed_scales : {FixedScales}]
\* The normal-task losses a call may compute.
NormalLosses == {Num(1), Num(3)}
\* The loss of every other task.
OtherLoss == One
\* What MGDASolver.get_scales may do for the tasks: return a scale map on the
\* simplex (C1), or raise (C3, C4).
SolverResults(tasks) ==
    {<<"raise">>} \cup
    {<<"scale", [t \in TaskSet(tasks) |-> RDiv(One, Num(Len(tasks)))]>>,
     <<"scale", [t \in TaskSet(tasks) |-> IF t = tasks[1] THEN Gamma999 ELSE Gamma001]>>}

\* The truth value of self.params.loss_threshold.
Truthy(th) == th # <<>> /\ th[1] # Zero
\* self.loss_hist: the instance attribute once line 108 has bound it, the
\* class attribute of line 22 before.
LossHist == IF own_bound THEN own_hist ELSE cls_hist
\* Faulty variant: the gate does not test the length of the history.
MeanGate(hist) ==
    Truthy(params.loss_threshold) /\ RGe(Mean(hist), params.loss_threshold[1])
\* Faulty variant: the two tests of the gate are joined by 'and'.
GateBoth(hist) ==
    /\ Truthy(params.loss_threshold)
    /\ RGe(Mean(hist), params.loss_threshold[1]) /\ Len(hist) < HistSize
\* Lines 58-59
GateHolds(hist) ==
    /\ Truthy(params.loss_threshold)
    /\ RGe(Mean(hist), params.loss_threshold[1]) \/ Len(hist) < HistSize
\* Line 49
ConfiguredTasks(attack) == IF attack THEN params.loss_tasks ELSE <<"normal">>
\* Lines 49-60: the loss tasks of the call.
ActiveTasks(attack, hist) == IF GateHolds(hist) THEN <<"normal">> ELSE ConfiguredTasks(attack)

\* Faulty variant: the newest entries are evicted.
FirstOf(hist) == IF Len(hist) <= HistSize THEN hist ELSE SubSeq(hist, 1, HistSize)
\* hist[-1000:]
LastOf(hist) ==
    IF Len(hist) <= HistSize THEN hist ELSE SubSeq(hist, Len(hist) - HistSize + 1, Len(hist))
\* Lines 107-108.
Appended(hist, loss) == LastOf(Append(hist, loss))
\* loss_values of compute_all_losses_and_grads for the tasks.
LossValues(tasks, loss) == [t \in TaskSet(tasks) |-> IF t = "normal" THEN loss ELSE OtherLoss]
\* scale_losses, lines 117-124, summed from task i on.
RECURSIVE BlindFrom(_, _, _, _)
BlindFrom(tasks, lv, sc, i) ==
    IF i > Len(tasks) THEN Zero
    ELSE RAdd(RMul(sc[tasks[i]], lv[tasks[i]]), BlindFrom(tasks, lv, sc, i + 1))

\* The call leaves with an exception.
Raises(sc) ==
    /\ a_pc' = "raised" /\ a_scale' = sc /\ a_loss' = <<>> /\ a_blind' = <<>>
    /\ UNCHANGED <<cls_hist, own_hist, own_bound, logged>>
\* Lines 107-114 with the scale map sc.
Record(tasks, sc, loss) ==
    IF "normal" \notin TaskSet(tasks)
    THEN \* loss_values['normal']: KeyError
         Raises(sc)
    ELSE /\ a_pc' = "returned" /\ a_scale' = sc /\ a_loss' = <<loss>>
         /\ a_blind' = <<BlindFrom(tasks, LossValues(tasks, loss), sc, 1)>>
         /\ logged' = logged + 1
         /\ own_bound' = TRUE
         /\ own_hist' = Appended(LossHist, loss)
         /\ cls_hist' = IF own_bound THEN cls_hist ELSE Append(cls_hist, loss)
\* Faulty variant: one active task is balanced like several.
BalanceAll(tasks, loss, res) ==
    IF params.loss_balance = "MGDA"
    THEN /\ a_solver' = TRUE /\ a_fixed' = FALSE
         /\ IF res[1] = "raise" THEN Raises(<<>>) ELSE Record(tasks, res[2], loss)
    ELSE IF params.loss_balance = "fixed"
    THEN /\ a_solver' = FALSE /\ a_fixed' = TRUE
         /\ Record(tasks, [t \in TaskSet(tasks) |-> params.fixed_scales[t]], loss)
    ELSE a_solver' = FALSE /\ a_fixed' = FALSE /\ Raises(<<>>)
\* Lines 62-96 for the active tasks; res is what get_scales does if called.
Balance(tasks, loss, res) ==
    IF Len(tasks) = 1
    THEN /\ a_solver' = FALSE /\ a_fixed' = FALSE
         /\ Record(tasks, [t \in {tasks[1]} |-> One], loss)
    ELSE IF params.loss_balance = "MGDA"
    THEN /\ a_solver' = TRUE /\ a_fixed' = FALSE
         /\ IF res[1] = "raise" THEN Raises(<<>>) ELSE Record(tasks, res[2], loss)
    ELSE IF params.loss_balance = "fixed"
    THEN /\ a_solver' = FALSE /\ a_fixed' = TRUE
         /\ Record(tasks, [t \in TaskSet(tasks) |-> params.fixed_scales[t]], loss)
    ELSE \* ValueError, line 93
         a_solver' = FALSE /\ a_fixed' = FALSE /\ Raises(<<>>)

\* One call of compute_blind_loss(model, criterion, batch, attack): valid tells
\* whether the batch passes the test of line 44.
compute_blind_loss ==
    \E valid \in BOOLEAN, attack \in BOOLEAN, loss \in NormalLosses :
        /\ a_pc \in {"idle", "returned"}
        /\ calls < MaxCalls
        /\ calls' = calls + 1
        /\ a_attack' = attack
        /\ a_seen' = LossHist
        /\ IF ~valid
           THEN \* lines 44-46: torch.tensor(0.0)
                /\ a_pc' = "returned" /\ a_tasks' = <<>> /\ a_scale' = <<>>
                /\ a_solver' = FALSE /\ a_fixed' = FALSE
                /\ a_loss' = <<>> /\ a_blind' = <<Zero>>
                /\ UNCHANGED <<cls_hist, own_hist, own_bound, logged>>
           ELSE /\ a_tasks' = ActiveTasks(attack, LossHist)
                /\ \E res \in SolverResults(a_tasks') : Balance(a_tasks', loss, res)
        /\ UNCHANGED <<params, solverVars, harnessVars, ckaVars, flVars>>

AttackInit ==
    /\ SolverIdle /\ HarnessIdle /\ CkaIdle(DefaultDrop)
    /\ AttackIdle /\ params \in ParamChoices /\ NoRound
AttackSpec == AttackInit /\ [][compute_blind_loss]_vars

\* ------------------------------------------------------------ gradient_normalizers on its own
\* The gradients and the loss tensors of a task given to gradient_normalizers.
NormGrads == {ToNums(<<0, 0>>), ToNums(<<1, 0>>), ToNums(<<3, 4>>)}
NormLosses == {<<Zero>>, <<Num(1), Num(3)>>, <<Num(-1)>>, <<Num(20)>>}
NormTasks == {"normal", "backdoor"}
\* h_in = <<grads, losses, normalization_type>>
NormInit ==
    /\ SolverIdle /\ CkaIdle(DefaultDrop) /\ NoAttack /\ NoRound
    /\ h_in \in [NormTasks -> NormGrads] \X [NormTasks -> NormLosses] \X ModeChoices
    /\ h_out = <<>>
ApplyNormalizers ==
    /\ h_out = <<>>
    /\ h_out' = gradient_normalizers(h_in[1], h_in[2], h_in[3])
    /\ UNCHANGED <<solverVars, h_in, ckaVars, attackVars, flVars>>
NormSpec == NormInit /\ [][ApplyNormalizers]_vars

\* ------------------------------------------------------------ run_fl_round
\* Largest number of participants of a round, and of local epochs.
MaxUsers == 2
MaxLocalEpochs == 2
\* Models are one integer parameter.  What a call of train adds to the model it
\* is given (the optimizer steps of lines 51-56).
Steps == {-1, 1}
GlobalChoices == {0, 2}
LocalChoices == {0, 7}
FlParamChoices ==
    [fl_local_epochs : 0..MaxLocalEpochs, fl_weight_scale : {1, 3}]
\* hlpr.task.sample_users_for_round: whether each participant is compromised.
UserLists == UNION {[1..n -> BOOLEAN] : n \in 0..MaxUsers}

\* FederatedLearningTask.copy_params(global_model, local_model): the local
\* model afterwards.
copy_params(global, local) == global
\* get_fl_update(local_model, global_model): the difference of the two.
get_fl_update(local, global) == local - global
\* accumulate_weights(weight_accumulator, local_update): the accumulator afterwards.
accumulate_weights(acc, update) == acc + update
\* update_global_model(weight_accumulator, global_model): the global model
\* afterwards.
update_global_model(acc, global) == global + acc
\* Attack.fl_scale_update: value.mul_(self.params.fl_weight_scale)
fl_scale_update(update) == update * fl_params.fl_weight_scale

\* Faulty variant: the local model is left as the last participant trained it.
NoReset(global, local) == local
\* Line 168: the local model a participant starts with.
LocalAtStart(global, local) == copy_params(global, local)
\* Lines 174-179: the attack flag train is called with.
AttackFlag(compromised) == IF compromised THEN TRUE ELSE FALSE
\* Faulty variant: every update is scaled.
ScaleAll(compromised, update) == fl_scale_update(update)
\* Lines 185-186
ScaledUpdate(compromised, update) ==
    IF compromised THEN fl_scale_update(update) ELSE update

\* Lines 160-164
StartRound ==
    /\ r_pc = "idle"
    /\ round_participants' \in UserLists
    /\ weight_accumulator' = 0
    /\ global_at_start' = global_model
    /\ user' = 0 /\ local_epoch' = 0
    /\ r_pc' = "user"
    /\ UNCHANGED <<fl_params, global_model, local_model, local_starts, train_log,
                   acc_log, global_writes>>
    /\ UNCHANGED <<solverVars, harnessVars, ckaVars, attackVars>>
\* Line 167, and lines 168-169 for the next participant.
NextUser ==
    /\ r_pc = "user"
    /\ IF user < Len(round_participants)
       THEN /\ user' = user + 1
            /\ local_model' = LocalAtStart(global_model, local_model)
            /\ local_starts' = Append(local_starts, local_model')
            /\ local_epoch' = 0
            /\ r_pc' = "train"
       ELSE r_pc' = "global" /\ UNCHANGED <<user, local_model, local_starts, local_epoch>>
    /\ UNCHANGED <<fl_params, global_model, round_participants, weight_accumulator,
                   global_at_start, train_log, acc_log, global_writes>>
    /\ UNCHANGED <<solverVars, harnessVars, ckaVars, attackVars>>
\* Lines 173-179: one local epoch.
LocalEpoch ==
    /\ r_pc = "train"
    /\ local_epoch < fl_params.fl_local_epochs
    /\ local_epoch' = local_epoch + 1
    /\ \E step \in Steps : local_model' = local_model + step
    /\ train_log' = Append(train_log, <<user, AttackFlag(round_participants[user])>>)
    /\ UNCHANGED <<r_pc, fl_params, global_model, round_participants,
                   weight_accumulator, user, global_at_start, local_starts, acc_log,
                   global_writes>>
    /\ UNCHANGED <<solverVars, harnessVars, ckaVars, attackVars>>
\* Lines 182-187, for the update as get_fl_update computed it.
AddUpdate(raw) ==
    /\ weight_accumulator' =
           accumulate_weights(weight_accumulator,
                              ScaledUpdate(round_participants[user], raw))
    /\ acc_log' = Append(acc_log,
                         [user |-> user, raw |-> raw,
                          added |-> ScaledUpdate(round_participants[user], raw)])
CollectUpdate ==
    /\ r_pc = "train"
    /\ ~(local_epoch < fl_params.fl_local_epochs)
    /\ AddUpdate(get_fl_update(local_model, global_model))
    /\ r_pc' = "user"
    /\ UNCHANGED <<fl_params, global_model, local_model, round_participants, user,
                   local_epoch, global_at_start, local_starts, train_log,
                   global_writes>>
    /\ UNCHANGED <<solverVars, harnessVars, ckaVars, attackVars>>
\* Line 189
UpdateGlobal ==
    /\ r_pc = "global"
    /\ global_model' = update_global_model(weight_accumulator, global_model)
    /\ global_writes' = global_writes + 1
    /\ r_pc' = "done"
    /\ UNCHANGED <<fl_params, local_model, round_participants, weight_accumulator,
                   user, local_epoch, global_at_start, local_starts, train_log,
                   acc_log>>
    /\ UNCHANGED <<solverVars, harnessVars, ckaVars, attackVars>>

FlInit ==
    /\ SolverIdle /\ HarnessIdle /\ CkaIdle(DefaultDrop) /\ NoAttack
    /\ r_pc = "idle" /\ fl_params \in FlParamChoices
    /\ global_model \in GlobalChoices /\ local_model \in LocalChoices
    /\ round_participants = <<>> /\ weight_accumulator = 0 /\ user = 0
    /\ local_epoch = 0 /\ global_at_start = 0 /\ local_starts = <<>>
    /\ train_log = <<>> /\ acc_log = <<>> /\ global_writes = 0
run_fl_round == StartRound \/ NextUser \/ LocalEpoch \/ CollectUpdate \/ UpdateGlobal
FlSpec == FlInit /\ [][run_fl_round]_vars

\* ------------------------------------------------------------ claims
\* w lies on the simplex: every entry is a number >= 0 and the entries sum to 1.
OnSimplex(w) == (\A i \in DOMAIN w : RGe(w[i], Zero)) /\ RSum(w) = One
\* The cost of the two-point solver for the pair (i, j) of the gradients v.
PairResult(v, i, j) ==
    _min_norm_element_from2(DotFrom(v[i], v[i], 1, Len(v[i])),
                            DotFrom(v[i], v[j], 1, Len(v[i])),
                            DotFrom(v[j], v[j], 1, Len(v[j])))

\* C1: every weight vector that find_min_norm_element returns for n >= 2 task
\* gradients has one entry per task, all entries non-negative and summing to 1,
\* and so has every scale map that get_scales returns.
C1_WeightsOnSimplex ==
    /\ (pc = "returned" /\ fn = "pgd" /\ Len(ret) = 2) =>
           /\ Len(ret[1]) = Len(vecs)
           /\ OnSimplex(ret[1])
    /\ scale # <<>> =>
           /\ DOMAIN scale = TaskSet(call.tasks)
           /\ OnSimplex([z \in DOMAIN call.tasks |-> scale[call.tasks[z]]])
\* get_scales has returned the weights of three tasks after a pass of the loop,
\* one of them strictly between 0.001 and 0.999.
C1_Witness ==
    /\ pc = "returned" /\ outer = "get_scales" /\ Len(vecs) = 3 /\ passes >= 1
    /\ scale # <<>>
    /\ \E t \in DOMAIN scale : RGt(scale[t], Gamma001) /\ RLt(scale[t], Gamma999)

\* C2: the loop of the solver is capped at MAX_ITER passes: whenever the loop
\* condition iter_count < MAX_ITER is about to be tested, the passes executed
\* plus the passes the condition still allows do not exceed MAX_ITER.
C2_LoopCapped == pc = "loop" => passes + (MAX_ITER - iter_count) <= MAX_ITER

\* C3: for n = 2 gradients find_min_norm_element returns, without a pass of the
\* loop, the weights (c, 1 - c) and the cost d of the two-point solver applied
\* to the Gram entries of the two gradients.
C3_TwoTaskClosedForm ==
    (fn = "pgd" /\ Len(vecs) = 2 /\ pc \notin {"idle", "unrep"}) =>
        /\ pc = "returned"
        /\ passes = 0
        /\ ret = <<<<PairResult(vecs, 1, 2)[1], RSub(One, PairResult(vecs, 1, 2)[1])>>,
                   PairResult(vecs, 1, 2)[2]>>

\* C4: for every list of n >= 2 gradients _min_norm_2d returns a pair (i, j),
\* i < j, with the coefficient and the cost of the two-point solver for that
\* pair, and this cost is the least over all unordered pairs.
C4_SeedIsMinPair ==
    (vecs # <<>> /\ pc \notin {"idle", "unrep"}) =>
        /\ init_sol # NoSol
        /\ init_sol[1][1] < init_sol[1][2]
        /\ init_sol[1][2] <= Len(vecs)
        /\ <<init_sol[2], init_sol[3]>> = PairResult(vecs, init_sol[1][1], init_sol[1][2])
        /\ \A i \in 1..Len(vecs) : \A j \in (i + 1)..Len(vecs) :
               RLe(init_sol[3], PairResult(vecs, i, j)[2])

\* C5: _min_norm_element_from2(v11, v12, v22) is (0.999, v11) when v12 >= v11;
\* otherwise (0.001, v22) when v12 >= v22; otherwise (gamma, cost) with
\* gamma * (v11 + v22 - 2 * v12) = v22 - v12 and cost = v22 + gamma * (v12 - v22).
C5_From2Cases ==
    h_out # <<>> =>
        IF RGe(h_in[2], h_in[1]) THEN h_out = <<Frac(999, 1000), h_in[1]>>
        ELSE IF RGe(h_in[2], h_in[3]) THEN h_out = <<Frac(1, 1000), h_in[3]>>
        ELSE /\ RMul(h_out[1], RSub(RAdd(h_in[1], h_in[3]), RMul(Num(2), h_in[2])))
                    = RSub(h_in[3], h_in[2])
             /\ h_out[2] = RAdd(h_in[3], RMul(h_out[1], RSub(h_in[2], h_in[3])))
\* The solver has been applied in its third case, and in a case where both
\* v12 >= v11 and v12 >= v22 hold.
C5_Witness ==
    /\ h_out # <<>>
    /\ h_in = <<Num(2), Num(1), Num(3)>>
    /\ h_out = <<Frac(2, 3), Frac(5, 3)>>

\* ---- filter_and_aggregate
\* The indices that pass the quantile test of line 60 for the matrix s.
Passing(s) == KeepIdx(RowMeans(s), Quantile(RowMeans(s), drop))
IndexSet(idx) == {idx[p] : p \in DOMAIN idx}
\* The clients of the call that are not in the returned keep-set.
Dropped == (1..Len(locals_w)) \ IndexSet(keep_idx)
\* The sum of element e of parameter k over the updates lw[i], i in S.
RECURSIVE SumOver(_, _, _, _), SumPick(_, _, _, _, _)
SumOver(lw, S, k, e) ==
    IF S = {} THEN Zero ELSE SumPick(lw, S, k, e, CHOOSE i \in S : TRUE)
SumPick(lw, S, k, e, i) == RAdd(lw[i][k][e], SumOver(lw, S \ {i}, k, e))
\* The parameter-wise mean of the updates lw[i], i in S.
MeanOver(lw, S) ==
    [k \in ParamNames |-> [e \in DOMAIN lw[1][k] |->
        RDiv(SumOver(lw, S, k, e), Num(Cardinality(S)))]]

DistinctMeans(mean) ==
    /\ \A i \in DOMAIN mean : IsNum(mean[i])
    /\ \A i \in DOMAIN mean : \A j \in DOMAIN mean : i # j => mean[i] # mean[j]
\* C7: when the mean similarities of the m clients are pairwise distinct, the
\* call with discard ratio q drops exactly ceil(q * (m - 1)) clients, every
\* dropped client has a lower mean similarity than every kept one, and for
\* m = 3, q = 0.5 exactly one client is dropped.
C7_DropsLowest ==
    (d_pc = "returned" /\ DistinctMeans(RowMeans(sim))) =>
        /\ Cardinality(Dropped) = Ceil(RMul(drop, Num(Len(locals_w) - 1)))
        /\ \A i \in Dropped : \A j \in IndexSet(keep_idx) :
               RLt(RowMeans(sim)[i], RowMeans(sim)[j])
        /\ (Len(locals_w) = 3 /\ drop = <<1, 2>>) => Cardinality(Dropped) = 1
\* Three clients with distinct mean similarities, q = 0.5, one client dropped.
C7_Witness ==
    /\ d_pc = "returned" /\ Len(locals_w) = 3 /\ drop = <<1, 2>>
    /\ DistinctMeans(RowMeans(sim))
    /\ Cardinality(Dropped) = 1

\* All updates of the call are the same update.
Identical == Len(locals_w) >= 1 /\ \A i \in DOMAIN locals_w : locals_w[i] = locals_w[1]
AllEntries(s, x) == \A i \in DOMAIN s : \A j \in DOMAIN s[i] : s[i][j] = x
\* The activations a differ between two reference inputs.
Varies(a) == \E r \in DOMAIN a : a[r] # a[1]
Finite(u) == \A k \in DOMAIN u : \A e \in DOMAIN u[k] : IsNum(u[k][e])
C9_MeanOverKept ==
    d_pc = "returned" =>
        /\ \A i \in DOMAIN locals_w :
               /\ DOMAIN agg = DOMAIN locals_w[i]
               /\ \A k \in DOMAIN agg : DOMAIN agg[k] = DOMAIN locals_w[i][k]
        /\ agg = MeanOver(locals_w, IndexSet(keep_idx))
\* A client was dropped and the mean over all updates is another one.
C9_Witness ==
    /\ d_pc = "returned" /\ Dropped # {}
    /\ Finite(agg)
    /\ agg # MeanOver(locals_w, 1..Len(locals_w))

\* C10: the similarity matrix returned is the one stored as last_sim, has one
\* row and one column per input update, dropped clients included, holds at
\* (i, j) the CKA of the activations of updates i and j, and is symmetric.
C10_FullSymmetricSim ==
    d_pc = "returned" =>
        /\ last_sim = sim
        /\ DOMAIN sim = 1..Len(locals_w)
        /\ \A i \in DOMAIN sim :
               /\ DOMAIN sim[i] = 1..Len(locals_w)
               /\ \A j \in DOMAIN sim :
                      /\ sim[i][j] = sim[j][i]
                      /\ sim[i][j] = cka(_acts(locals_w[i]), _acts(locals_w[j]))
\* Three clients, one dropped, whose row holds a similarity strictly between
\* 0 and 1.
C10_Witness ==
    /\ d_pc = "returned" /\ Len(locals_w) = 3
    /\ \E i \in Dropped : \E j \in IndexSet(keep_idx) :
           RGt(sim[i][j], Zero) /\ RLt(sim[i][j], One) /\ sim[j][i] = sim[i][j]

\* ---- cka
\* C11: cka(X, Y) = cka(Y, X) for all activation matrices X and Y with the
\* same number of rows.
C11_CkaSymmetric == h_out # <<>> => h_out[1] = h_out[2]
\* cka has been applied both ways to two matrices of different variance, with
\* a similarity strictly between 0 and 1.
C11_Witness ==
    /\ h_out # <<>>
    /\ h_in = <<<<<<Num(1)>>, <<Num(0)>>, <<Num(0)>>>>, <<<<Num(1)>>, <<Num(-1)>>, <<Num(0)>>>>>>
    /\ RGt(h_out[1], Zero) /\ RLt(h_out[1], One)

\* ---- compute_blind_loss

\* The last call got a valid batch and computed its losses.
Computed == a_pc # "idle" /\ a_tasks # <<>>
\* C12: after every call of compute_blind_loss that computes a loss and
\* returns, the history holds at most HistSize (the code's 1000) entries: the
\* loss of this call last, before it the entries the call found, in their
\* order, the oldest of them evicted when the history was full.
C12_HistoryBounded ==
    /\ Len(LossHist) <= HistSize
    /\ (a_pc = "returned" /\ a_loss # <<>>) =>
           /\ Len(LossHist) = IF Len(a_seen) < HistSize THEN Len(a_seen) + 1 ELSE HistSize
           /\ LossHist[Len(LossHist)] = a_loss[1]
           /\ \A i \in 1..(Len(LossHist) - 1) :
                  LossHist[i] = a_seen[Len(a_seen) - (Len(LossHist) - 1) + i]
\* A call found a full history and evicted an entry that differs from the
\* loss it appended.
C12_Witness ==
    /\ a_pc = "returned" /\ a_loss # <<>>
    /\ Len(a_seen) = HistSize
    /\ a_seen[1] # a_loss[1]
    /\ a_seen[1] # a_seen[2]

\* C13 as stated: a call that finds fewer than HistSize (1000) losses in the
\* history, or is one of the first HistSize calls, has the normal task as its
\* only task and balances nothing, whatever the configuration.
C13_WarmUpNormalOnly ==
    (Computed /\ (Len(a_seen) < HistSize \/ calls <= HistSize)) =>
        a_tasks = <<"normal">> /\ ~a_solver /\ ~a_fixed
\* C13 amended: with a loss_threshold configured that is neither None nor 0, a
\* call that finds fewer than HistSize (1000) losses in the history, or is one
\* of the first HistSize calls, has the normal task as its only task and
\* balances nothing, whatever the configured tasks and the attack flag.
C13_WarmUpWithThreshold ==
    (/\ Computed
     /\ Truthy(params.loss_threshold)
     /\ (Len(a_seen) < HistSize \/ calls <= HistSize)) =>
        a_tasks = <<"normal">> /\ ~a_solver /\ ~a_fixed
\* An attack call with two tasks configured found a short history whose mean
\* is below the threshold, and used the normal task only.
C13_Witness ==
    /\ a_pc = "returned" /\ a_attack /\ Len(params.loss_tasks) = 2
    /\ Truthy(params.loss_threshold)
    /\ a_seen # <<>> /\ Len(a_seen) < HistSize
    /\ RLt(Mean(a_seen), params.loss_threshold[1])
    /\ a_tasks = <<"normal">>

\* C14: when a call has exactly one active loss task (after line 49 and the
\* gate of lines 58-60), the scale map is {task: 1.0}, MGDASolver.get_scales is
\* not called and fixed_scales is not read, whatever loss_balance is; a call
\* that returns then returns the loss of that task.
C14_SingleTaskScaleOne ==
    (Computed /\ Len(a_tasks) = 1) =>
        /\ DOMAIN a_scale = {a_tasks[1]}
        /\ a_scale[a_tasks[1]] = One
        /\ ~a_solver /\ ~a_fixed
        /\ a_pc = "returned" => a_blind = a_loss
\* An attack call with two tasks configured and loss_balance = 'fixed' was
\* reduced by the gate to one task, and returned.
C14_Witness ==
    /\ a_pc = "returned" /\ a_attack /\ Len(params.loss_tasks) = 2
    /\ params.loss_balance = "fixed"
    /\ Len(a_tasks) = 1 /\ a_scale = [t \in {"normal"} |-> One]

\* C15: with a loss_balance that is neither 'MGDA' nor 'fixed', every call of
\* compute_blind_loss on a valid batch, the first included, ends with an error.
C15_UnknownModeFails ==
    (Computed /\ params.loss_balance \notin {"MGDA", "fixed"}) => a_pc = "raised"

\* ---- gradient_normalizers
\* C16 as stated: for each mode in {l2, loss, loss+, none, eq} the function
\* returns a strictly positive scalar for every task; for any other mode it
\* raises an error and returns nothing.
C16_NormalizersPositive ==
    h_out # <<>> =>
        IF h_in[3] \in {"l2", "loss", "loss+", "none", "eq"}
        THEN ~h_out.err /\ \A t \in DOMAIN h_in[1] : RGt(h_out.gn[t], Zero)
        ELSE h_out.err /\ h_out.gn = <<>>
\* The gradient g is not zero.
NonZero(g) == \E k \in DOMAIN g : g[k] # Zero
\* C16 amended: for each mode in {l2, loss, loss+, none, eq} the function
\* returns one scalar per task: 1 for none and eq; for l2 a scalar >= 0 that is
\* positive exactly when the gradient is not zero; for loss a scalar that is
\* positive exactly when the mean loss is positive; for loss+ a scalar that is
\* positive exactly when the mean loss is positive and the gradient not zero.
\* For any other mode it raises an error and returns nothing.
C16_NormalizersSign ==
    h_out # <<>> =>
        IF h_in[3] \in {"l2", "loss", "loss+", "none", "eq"}
        THEN /\ ~h_out.err
             /\ DOMAIN h_out.gn = DOMAIN h_in[1]
             /\ \A t \in DOMAIN h_in[1] :
                    /\ h_in[3] \in {"none", "eq"} => h_out.gn[t] = One
                    /\ h_in[3] = "l2" =>
                           /\ RGe(h_out.gn[t], Zero)
                           /\ RGt(h_out.gn[t], Zero) <=> NonZero(h_in[1][t])
                    /\ h_in[3] = "loss" =>
                           (RGt(h_out.gn[t], Zero) <=> RGt(Mean(h_in[2][t]), Zero))
                    /\ h_in[3] = "loss+" =>
                           (RGt(h_out.gn[t], Zero) <=>
                               (RGt(Mean(h_in[2][t]), Zero) /\ NonZero(h_in[1][t])))
        ELSE h_out.err /\ h_out.gn = <<>>
\* The function was applied in mode l2 to a zero gradient and a gradient of
\* norm 5, and returned 0 and 5.
C16_Witness ==
    /\ h_out # <<>> /\ h_in[3] = "l2"
    /\ h_in[1]["normal"] = ToNums(<<0, 0>>) /\ h_in[1]["backdoor"] = ToNums(<<3, 4>>)
    /\ h_out.gn["normal"] = Zero /\ h_out.gn["backdoor"] = Num(5)

\* ---- find_min_norm_element on particular inputs
\* C17: for 5 mutually orthogonal unit gradients find_min_norm_element returns
\* after two passes of its loop, with the weights (1/5, 1/5, 1/5, 1/5, 1/5)
\* and the cost 1/5.
C17_OrthogonalUniform ==
    (fn = "pgd" /\ vecs = UnitGrads) =>
        /\ pc \in {"loop", "returned"}
        /\ pc = "loop" => passes <= 1
        /\ pc = "returned" => ret = <<[i \in 1..5 |-> Frac(1, 5)], Frac(1, 5)>>
\* The call has returned for the five unit gradients, after passes of the loop.
C17_Witness ==
    /\ fn = "pgd" /\ vecs = UnitGrads /\ pc = "returned" /\ passes = 2
    /\ ret[2] = Frac(1, 5)

AllSame(v) == \A i \in DOMAIN v : v[i] = v[1]
\* C18: when all n >= 2 gradients are identical, find_min_norm_element returns
\* (it does not raise, and its loop makes at most one pass), with weights on
\* the simplex and a cost equal to the squared norm of the common gradient.
C18_IdenticalGradients ==
    (fn = "pgd" /\ vecs # <<>> /\ AllSame(vecs) /\ pc \notin {"idle", "unrep"}) =>
        /\ pc \in {"loop", "returned"}
        /\ pc = "loop" => passes = 0
        /\ pc = "returned" =>
               /\ ret # <<"None">>
               /\ OnSimplex(ret[1])
               /\ ret[2] = SquaredNorm(vecs[1])

\* ---- _min_norm_element_from2, the cost
\* |c*x1 + (1 - c)*x2|^2 from the three Gram entries g = <<v11, v12, v22>>.
NormAt(c, g) ==
    RAdd(RAdd(RMul(RMul(c, c), g[1]),
              RMul(RMul(Num(2), RMul(c, RSub(One, c))), g[2])),
         RMul(RMul(RSub(One, c), RSub(One, c)), g[3]))
\* v11, v12, v22 are the Gram entries of two real vectors.
IsGram(g) ==
    /\ RGe(g[1], Zero) /\ RGe(g[3], Zero)
    /\ RGe(RMul(g[1], g[3]), RMul(g[2], g[2]))
\* C19 as stated: on the Gram entries of two gradients the cost returned by
\* _min_norm_element_from2 is gamma^2*v11 + 2*gamma*(1 - gamma)*v12
\* + (1 - gamma)^2*v22 at the gamma it returns, in each of the three cases.
C19_CostAtReturnedGamma ==
    (h_out # <<>> /\ IsGram(h_in)) => h_out[2] = NormAt(h_out[1], h_in)
\* C19, amended: the returned cost is that squared norm at the returned gamma
\* in the third case; in the case v12 >= v11 it is the squared norm at
\* gamma = 1 (v11) and in the case v12 >= v22 the squared norm at gamma = 0
\* (v22), while the gamma returned is 0.999 and 0.001.
C19_CostAtUnclampedGamma ==
    h_out # <<>> =>
        h_out[2] = NormAt(IF RGe(h_in[2], h_in[1]) THEN One
                          ELSE IF RGe(h_in[2], h_in[3]) THEN Zero
                          ELSE h_out[1], h_in)
\* The solver has returned gamma = 0.999 with the cost v11 = 1 for the Gram
\* entries of (1, 0) and (1, 1), where the squared norm at 0.999 is 1.000001.
C19_Witness ==
    /\ h_in = <<Num(1), Num(1), Num(2)>>
    /\ h_out = <<Gamma999, Num(1)>>
    /\ NormAt(Gamma999, h_in) = Frac(1000001, 1000000)

\* ---- _min_norm_element_from2, the division of line 32
\* The call with the Gram entries g reaches line 32.
ReachesDivision(g) == ~RGe(g[2], g[1]) /\ ~RGe(g[2], g[3])
\* C20 as stated, for its named case: for the Gram entries of two equal
\* gradients (v11 = v12 = v22) _min_norm_element_from2 evaluates the division
\* of line 32, whose denominator is then zero (gamma is 0/0).
C20_EqualEntriesDivideByZero ==
    (h_out # <<>> /\ h_in[1] = h_in[2] /\ h_in[2] = h_in[3]) =>
        /\ ReachesDivision(h_in)
        /\ From2Den(h_in[1], h_in[2], h_in[3]) = Zero
        /\ h_out[1] = NaN
\* C20, amended: _min_norm_element_from2 never evaluates its division with a
\* zero denominator: whenever line 32 is reached the denominator is strictly
\* positive, no gamma or cost is NaN, and equal Gram entries return
\* (0.999, v11) from the first case.
C20_NoZeroDenominator ==
    h_out # <<>> =>
        /\ h_out[1] # NaN /\ h_out[2] # NaN
        /\ ReachesDivision(h_in) => RGt(From2Den(h_in[1], h_in[2], h_in[3]), Zero)
        /\ (h_in[1] = h_in[2] /\ h_in[2] = h_in[3]) => h_out = <<Gamma999, h_in[1]>>
\* The solver has been applied to the Gram entries of two equal gradients.
C20_Witness ==
    /\ h_in = <<Num(2), Num(2), Num(2)>>
    /\ h_out = <<Gamma999, Num(2)>>

\* ---- find_min_norm_element_FW
\* C21: for n = 2 gradients find_min_norm_element_FW returns what
\* find_min_norm_element returns: the seed (c, 1 - c) of _min_norm_2d and its
\* cost, with no pass of the loop.
C21_FWTwoTaskSeed ==
    (fn = "fw" /\ Len(vecs) = 2 /\ pc \notin {"idle", "unrep"}) =>
        /\ pc = "returned" /\ passes = 0
        /\ init_sol # NoSol
        /\ ret = <<SeedVec(2, init_sol), init_sol[3]>>

\* ---- filter_and_aggregate, what it leaves alone
\* C22: filter_and_aggregate leaves the template model and every client update
\* given to it unchanged, however the call ends; what it returns as agg is no
\* object of the caller's list.
C22_InputsUnchanged ==
    d_pc # "idle" =>
        /\ template = TemplateDict
        /\ locals_w = given
\* A call has returned an aggregate that differs from the first kept update,
\* for three updates of which some were dropped.
C22_Witness ==
    /\ d_pc = "returned" /\ Len(given) = 3 /\ Len(keep_idx) = 2
    /\ agg # given[keep_idx[1]]
    /\ locals_w = given

\* ---- cka on activations without variance
\* The update of client i has finite values and gives the same activation on
\* every reference input.
ZeroVariance(i) == Finite(given[i]) /\ ~Varies(_acts(given[i]))
InUnitRange(q) == RGe(q, Zero) /\ RLe(q, One)
\* C23: for a round that holds a client whose activations have zero variance
\* (and a discard ratio in [0, 1]) filter_and_aggregate completes; cka of that
\* client's activations with those of any client of finite values is 0, so
\* its row, its column and its diagonal entry of the similarity matrix are 0.
C23_ZeroVarianceAbsorbed ==
    (d_pc \notin {"idle", "unrep"} /\ InUnitRange(drop)
     /\ \E i \in DOMAIN given : ZeroVariance(i)) =>
        /\ d_pc = "returned"
        /\ \A i \in DOMAIN given : ZeroVariance(i) =>
               /\ sim[i][i] = Zero
               /\ \A j \in DOMAIN given : Finite(given[j]) =>
                      sim[i][j] = Zero /\ sim[j][i] = Zero
\* A round of three clients has returned: the second has zero variance, the
\* first has not.
C23_Witness ==
    /\ d_pc = "returned" /\ Len(given) = 3
    /\ ZeroVariance(2) /\ Finite(given[1]) /\ Varies(_acts(given[1]))
    /\ sim[2][2] = Zero /\ sim[1][1] = One

\* ---- run_fl_round
\* The participants whose local training has begun, in the order of the log.
NonDecreasing(log) == \A p \in DOMAIN log : \A q \in DOMAIN log : p <= q => log[p][1] <= log[q][1]
\* C24: in run_fl_round the participants are processed one after another
\* (training of a participant begins only once the update of the one before
\* has been accumulated), every participant's local model is reset to the
\* global model as it stood when the round began, and the global model is
\* written exactly once, after the updates of all participants have been
\* accumulated.
C24_SequentialRound ==
    /\ \A p \in DOMAIN local_starts : local_starts[p] = global_at_start
    /\ \A p \in DOMAIN acc_log : acc_log[p].user = p
    /\ NonDecreasing(train_log)
    /\ \A p \in DOMAIN train_log : train_log[p][1] = Len(acc_log) + 1
                                   \/ train_log[p][1] <= Len(acc_log)
    /\ r_pc \in {"user", "train", "global"} =>
           global_writes = 0 /\ global_model = global_at_start
    /\ r_pc = "global" => Len(acc_log) = Len(round_participants)
    /\ r_pc = "done" =>
           /\ global_writes = 1
           /\ Len(acc_log) = Len(round_participants)
           /\ Len(local_starts) = Len(round_participants)
\* A round of two participants is over, the first of which changed its local
\* model.
C24_Witness ==
    /\ r_pc = "done" /\ Len(round_participants) = 2 /\ global_writes = 1
    /\ acc_log[1].raw # 0 /\ local_starts[2] = global_at_start

\* C30: in run_fl_round the update of every participant is accumulated exactly
\* once; what is accumulated is the update times fl_weight_scale if the
\* participant is compromised and the update itself if not; and train is
\* called with the attack flag set for the compromised participants only.
C30_ScaleAndFlagByCompromised ==
    /\ \A p \in DOMAIN acc_log :
           /\ acc_log[p].user = p
           /\ acc_log[p].added = IF round_participants[p]
                                 THEN acc_log[p].raw * fl_params.fl_weight_scale
                                 ELSE acc_log[p].raw
    /\ \A p \in DOMAIN train_log : train_log[p][2] = round_participants[train_log[p][1]]
    /\ r_pc \in {"global", "done"} =>
           /\ Len(acc_log) = Len(round_participants)
           /\ \A u \in DOMAIN round_participants :
                  Cardinality({p \in DOMAIN acc_log : acc_log[p].user = u}) = 1
\* A round with a compromised and an honest participant is over; both changed
\* their local models and the weight scale is 3.
C30_Witness ==
    /\ r_pc = "done" /\ round_participants = <<TRUE, FALSE>>
    /\ fl_params.fl_weight_scale = 3
    /\ acc_log[1].raw # 0 /\ acc_log[1].added = 3 * acc_log[1].raw
    /\ acc_log[2].raw # 0 /\ acc_log[2].added = acc_log[2].raw
    /\ train_log[1] = <<1, TRUE>>

Largest(mean) == {i \in DOMAIN mean : \A j \in DOMAIN mean : RGe(mean[i], mean[j])}
\* C26: for m >= 1 clients, a similarity matrix of real numbers and a discard
\* ratio in [0, 1], the call returns, every client with the largest mean
\* similarity passes the quantile test and is in the keep-set, and the
\* keep-set is the list of the clients that passed: the fallback to all clients
\* is not taken.
C26_LargestMeanPasses ==
    (d_pc \notin {"idle", "unrep"} /\ InUnitRange(drop)) =>
        /\ d_pc = "returned"
        /\ Largest(RowMeans(sim)) # {}
        /\ Largest(RowMeans(sim)) \subseteq IndexSet(keep_idx)
        /\ Passing(sim) # <<>>
        /\ keep_idx = Passing(sim)
\* With the discard ratio 1 a call has kept the one client of the largest mean
\* similarity and dropped the other.
C26_Witness ==
    /\ d_pc = "returned" /\ drop = One /\ Len(given) = 2
    /\ sim = <<<<One, Zero>>, <<Zero, Zero>>>>
    /\ keep_idx = <<1>>

\* ---- _projection2simplex
\* C27: for every vector y of real numbers _projection2simplex(y) has
\* non-negative entries that sum to 1, and it is y itself when y lies on the
\* simplex.
C27_ProjectionOnSimplex ==
    h_out # <<>> =>
        /\ Len(h_out) = Len(h_in)
        /\ OnSimplex(h_out)
        /\ OnSimplex(h_in) => h_out = h_in
\* A vector with a negative entry and a sum above 1 has been projected: the loop
\* of lines 81-86 broke at its first pass.
C27_Witness ==
    /\ h_in = <<Num(2), Num(-1), <<1, 2>>>>
    /\ h_out = <<One, Zero, Zero>>

\* ---- get_scales, the caller's gradients
\* C28: after get_scales has returned, the gradient of every listed task in
\* the caller's mapping is the gradient the caller passed divided by
\* (gn[t] + 1e-5), gn[t] being the normalizer of the gradients and losses as
\* passed; the losses are as passed.
C28_NormalizedInPlace ==
    (outer = "get_scales" /\ pc = "returned") =>
        /\ DOMAIN grads = DOMAIN call.grads
        /\ \A t \in TaskSet(call.tasks) :
               /\ DOMAIN grads[t] = DOMAIN call.grads[t]
               /\ \A k \in DOMAIN grads[t] :
                      grads[t][k] =
                          RDiv(call.grads[t][k],
                               RAdd(NormOf(call.grads[t], call.losses[t], call.mode),
                                    NormEps))
\* get_scales has returned for the gradient (3, 4) of the task normal, whose
\* losses have the mean 1.99999 (mode loss): the caller's gradient is (3/2, 2).
C28_Witness ==
    /\ outer = "get_scales" /\ pc = "returned" /\ call.mode = "loss"
    /\ call.grads["normal"] = ToNums(<<3, 4>>)
    /\ grads["normal"] = <<Frac(3, 2), Num(2)>>

\* C29: when the convergence test of find_min_norm_element succeeds inside the
\* loop (three or more gradients), the weights returned are the iterate the
\* pass started from, the cost returned is the one the two-point solver gave
\* for the blend of that pass, and the blended weights are kept nowhere.
C29_ReturnsIterateBeforeBlend ==
    [][(fn = "pgd" /\ pc = "loop" /\ pc' = "returned" /\ ret' # <<"None">>) =>
           /\ Len(vecs) >= 3
           /\ RLt(LoopBody(sol_vec, dps, Len(vecs)).change, STOP_CRIT)
           /\ ret' = <<sol_vec, LoopBody(sol_vec, dps, Len(vecs)).nd>>
           /\ sol_vec' = sol_vec]_vars
C29_Witness ==
    /\ fn = "pgd" /\ pc = "returned" /\ passes >= 1 /\ Len(vecs) >= 3
    /\ vecs = NearOptimum
    /\ ret[1] = sol_vec /\ sol_vec = <<Frac(1, 1000), Frac(999, 1000), Zero>>
    /\ LoopBody(sol_vec, dps, Len(vecs)).new_sol_vec # sol_vec

====
